---- MODULE Spec2Model ----
(***************************************************************************)
(* Random preferential-attachment hypergraphs with vertex deactivation.    *)
(*                                                                         *)
(* The module models                                                       *)
(*   - the Fenwick tree of src/src/core/fenwick.rs (sum, get, set, add,    *)
(*     sample_one, sample_many),                                           *)
(*   - the hypergraph of src/src/core/hypergraph.rs,                       *)
(*   - the growth loop Simulation::run of src/src/core/simulation.rs,      *)
(*   - the retry driver Model::generate of src/src/core/model.rs,          *)
(*   - the parameter checks Model::new of src/src/core/model.rs,           *)
(*   - the binary of src/src/main.rs with the older engine                 *)
(*     Hypergraph::generate of src/src/hypergraph.rs.                      *)
(*                                                                         *)
(* Rust vectors are 0-indexed, TLA+ sequences 1-indexed: position i of a   *)
(* Rust vector is element i + 1 of the sequence that models it.  Vertex    *)
(* ids and Fenwick indices keep their Rust (0-based) values.               *)
(***************************************************************************)
EXTENDS Integers, Sequences, FiniteSets, TLC

VARIABLES
    model,            \* Model { pv, pe, pd, m }, probabilities in units of 1/Den
    steps,            \* argument `steps` of Model::generate / Simulation::run
    retries,          \* argument `retries` of Model::generate
    overflow_checks,  \* build profile: TRUE = debug (u32 overflow panics), FALSE = release (wraps)
    pc,               \* position of the program
    result,           \* `result` of Model::generate: "none", "Ok" or "Err"
    attempts,         \* number of invocations of Simulation::run so far
    failures,         \* number of invocations that returned Err so far
    retry_i,          \* iterations of the retry loop `for _ in 0..retries` started so far
    t,                \* number of loop iterations of Simulation::run completed
    event,            \* the event applied by the last iteration
    vertices,         \* hypergraph.vertices
    edges,            \* hypergraph.edges
    degree,           \* hypergraph.degree
    fenwick,          \* Fenwick { items, total }
    active_squares,   \* u32
    active_degrees,   \* u32
    theta,            \* Vec<f64>; each value kept as <<numerator, denominator>>
    deactivated,      \* history: the vertices a deactivation event was applied to
    plain,            \* the plain array of weights kept next to the tree (Fenwick harness)
    sample,           \* the last draw of the Fenwick harness: [x, index]
    error,            \* the payload of `result` when it is an Err: [kind, message], else "none"
    random,           \* the generator `random`: the number of values drawn from it so far
    args,             \* the arguments <<pv, pe, pd, m>> of a call of Model::new
    retry             \* the flag `--retry` of main

vars == <<model, steps, retries, overflow_checks, pc, result, attempts, failures,
          retry_i, t, event, vertices, edges, degree, fenwick, active_squares,
          active_degrees, theta, deactivated, plain, sample, error, random, args,
          retry>>

\* the variables only the command line and the Model::new calls use
Cli == <<args, retry>>

-----------------------------------------------------------------------------
(* Bounds of the model. *)

MaxSteps == 2

MaxM == 2

MaxRetries == 2

Den == 4

MaxCap == 4

MaxWeight == 2

-----------------------------------------------------------------------------
(* Machine integers. *)

\* A u32 value v is kept as its 32-bit two's-complement reading: v itself
\* when v < 2^31, and v - 2^32 otherwise, so that a value that wrapped below
\* zero (2^32 - k) is the integer -k.  LtU32 is the unsigned order.
LtU32(a, b) == IF (a >= 0) = (b >= 0) THEN a < b ELSE a >= 0

\* the carry of the unsigned addition a + b
CarryU32(a, b) == (a < 0 /\ b < 0) \/ ((a < 0) # (b < 0) /\ a + b >= 0)

RECURSIVE BitAnd(_, _)
BitAnd(a, b) ==
    IF a = 0 \/ b = 0 THEN 0
    ELSE (IF a % 2 = 1 /\ b % 2 = 1 THEN 1 ELSE 0) + 2 * BitAnd(a \div 2, b \div 2)

RECURSIVE BitOr(_, _)
BitOr(a, b) ==
    IF a = 0 THEN b
    ELSE IF b = 0 THEN a
    ELSE (IF a % 2 = 1 \/ b % 2 = 1 THEN 1 ELSE 0) + 2 * BitOr(a \div 2, b \div 2)

-----------------------------------------------------------------------------
(* Fenwick tree: src/src/core/fenwick.rs *)

Zeroes(n) == [k \in 1..n |-> 0]

of_size(size) == [items |-> Zeroes(size), total |-> 0]

\* first loop of `sum`: while j > i { sum += items[j - 1]; j &= j - 1; }
RECURSIVE SumUpper(_, _, _, _)
SumUpper(items, i, j, acc) ==
    IF j > i THEN SumUpper(items, i, BitAnd(j, j - 1), acc + items[j])
    ELSE [acc |-> acc, j |-> j]

\* second loop of `sum`: while i > j { sum -= items[i - 1]; i &= i - 1; }
RECURSIVE SumLower(_, _, _, _)
SumLower(items, i, j, acc) ==
    IF i > j THEN SumLower(items, BitAnd(i, i - 1), j, acc - items[i])
    ELSE acc

sum(f, i, j) ==
    LET up == SumUpper(f.items, i, j, 0)
    IN  SumLower(f.items, i, up.j, up.acc)

get(f, i) == sum(f, i, i + 1)

\* add with `i += 1` for `i |= i + 1`
RECURSIVE AddLoopLinear(_, _, _)
AddLoopLinear(items, i, x) ==
    IF i < Len(items)
    THEN AddLoopLinear([items EXCEPT ![i + 1] = @ + x], i + 1, x)
    ELSE items

\* loop of `add`: while i < n { items[i] += x; i |= i + 1; }
RECURSIVE AddLoop(_, _, _)
AddLoop(items, i, x) ==
    IF i < Len(items)
    THEN AddLoop([items EXCEPT ![i + 1] = @ + x], BitOr(i, i + 1), x)
    ELSE items

add(f, i, x) == [items |-> AddLoop(f.items, i, x), total |-> f.total + x]

\* set that leaves the tree as it is
set_ignored(f, i, x) == f

\* set that adds x to the weight
set_as_add(f, i, x) == add(f, i, x)

set(f, i, x) == add(f, i, x - get(f, i))

\* the binary search with `a + s <= x` for `a + s < x`
RECURSIVE SearchInclusive(_, _, _, _, _)
SearchInclusive(f, x, a, i, j) ==
    IF i < j
    THEN LET m == (i + j) \div 2
             s == sum(f, i, m + 1)
         IN  IF a + s <= x THEN SearchInclusive(f, x, a + s, m + 1, j)
                           ELSE SearchInclusive(f, x, a, i, m)
    ELSE j

\* the binary search of `sample_one` for the drawn value x
RECURSIVE Search(_, _, _, _, _)
Search(f, x, a, i, j) ==
    IF i < j
    THEN LET m == (i + j) \div 2
             s == sum(f, i, m + 1)
         IN  IF a + s < x THEN Search(f, x, a + s, m + 1, j)
                          ELSE Search(f, x, a, i, m)
    ELSE j

sample_one(f, x) == Search(f, x, 0, 0, Len(f.items) - 1)

\* the indices sample_one can return: one per value x that
\* `random.gen_range(1..=total)` can draw
SampleOne(f) == {sample_one(f, x) : x \in 1..f.total}

\* sample_many that draws one sample less
sample_many_short(f, m) == [1..(m - 1) -> SampleOne(f)]

\* the vectors sample_many(m, random) can return: m independent sample_one
sample_many(f, m) == [1..m -> SampleOne(f)]

-----------------------------------------------------------------------------
(* Model: src/src/core/model.rs *)

\* f64::NAN, a value outside the grid of the finite probabilities
NaN == 1000

\* the f64 comparisons: every comparison with a NaN is false
FLt(a, b) == a # NaN /\ b # NaN /\ a < b

FLe(a, b) == a # NaN /\ b # NaN /\ a <= b

\* line 50: `f64::abs(pv + pe + pd - 1.0) >= f64::EPSILON`.  Finite
\* probabilities are multiples of 1/Den, so the test is `pv + pe + pd # Den`;
\* a NaN operand makes the sum NaN and the comparison false.
NotOne(pv, pe, pd) == pv # NaN /\ pe # NaN /\ pd # NaN /\ pv + pe + pd # Den

\* the error value of a failed parameter check
ValidationError(msg) == [kind |-> "Validation", message |-> msg]

\* `return Err(msg.into())`; the messages are written without their backquotes
Rejected(msg) == [ok |-> FALSE, error |-> ValidationError(msg), model |-> "none"]

\* Model::new: the checks in the order of the code, then
\* `Ok(Model { pv, pd, pe, m })`
ModelNew(pv, pe, pd, m) ==
    IF FLt(pv, 0) \/ FLt(pe, 0) \/ FLt(pd, 0)
    THEN Rejected("Expected pv, pe and pd to be positive")
    ELSE IF NotOne(pv, pe, pd)
    THEN Rejected("Expected pv, pe and pd to sum up to 1")
    ELSE IF FLe(pv, pd)
    THEN Rejected("Expected pv > pd to hold")
    ELSE IF m < 1
    THEN Rejected("Expected m to be a positive integer")
    ELSE [ok |-> TRUE, error |-> "none",
          model |-> [pv |-> pv, pe |-> pe, pd |-> pd, m |-> m]]

\* the models Model::new returns for finite arguments, within the bounds
Models ==
    {mo \in [pv : 0..Den, pe : 0..Den, pd : 0..Den, m : 0..MaxM] :
        ModelNew(mo.pv, mo.pe, mo.pd, mo.m).ok}

\* Model::size
size(mo, step) == mo.m

\* `random.gen::<f64>()` draws p in [0, 1); the model draws p among the
\* multiples of 1/(2 * Den), so that p can equal a threshold or lie strictly
\* between two of them.
PDraws == 0..(2 * Den - 1)

IsVertexArrival(mo, p) == p <= 2 * mo.pv

IsEdgeArrival(mo, p) == ~IsVertexArrival(mo, p) /\ p <= 2 * (mo.pv + mo.pe)

IsVertexDeactivation(mo, p) == ~IsVertexArrival(mo, p) /\ ~IsEdgeArrival(mo, p)

-----------------------------------------------------------------------------
(* Hypergraph: src/src/core/hypergraph.rs *)

\* Hypergraph::initial
initial == [vertices |-> 1, edges |-> << <<0>> >>, degree |-> <<1>>]

\* add_vertex without `self.vertices += 1`
add_vertex_uncounted(h) ==
    [h EXCEPT !.degree = Append(@, 0)]

\* Hypergraph::add_vertex; the returned id is the old `vertices`
add_vertex(h) ==
    [h EXCEPT !.vertices = @ + 1, !.degree = Append(@, 0)]

\* the loop of Hypergraph::add_edge over e[k..]
RECURSIVE AddEdgeLoop(_, _, _)
AddEdgeLoop(deg, e, k) ==
    IF k > Len(e) THEN deg
    ELSE AddEdgeLoop([deg EXCEPT ![e[k] + 1] = @ + 1], e, k + 1)

\* add_edge that counts a vertex once per edge, however often it occurs
add_edge_distinct(h, e) ==
    [h EXCEPT !.degree = [n \in DOMAIN h.degree |->
                            h.degree[n] + IF \E k \in DOMAIN e : e[k] = n - 1 THEN 1 ELSE 0],
              !.edges = Append(@, e)]

\* Hypergraph::add_edge
add_edge(h, e) ==
    [h EXCEPT !.degree = AddEdgeLoop(@, e, 1), !.edges = Append(@, e)]

-----------------------------------------------------------------------------
(* Simulation::run: src/src/core/simulation.rs *)

\* u32 arithmetic gives [panic, v]: with overflow checks (debug profile) an
\* overflow panics, without them (release profile) the value wraps.
AddU32(a, b) ==
    [panic |-> CarryU32(a, b) /\ overflow_checks, v |-> a + b]

SubU32(a, b) ==
    [panic |-> LtU32(a, b) /\ overflow_checks, v |-> a - b]

\* the loop body without `active_degrees += 1`
StatsStepNoTotal(deg, st, u) ==
    LET d   == deg[u + 1]
        sq2 == AddU32(st.active_squares, 2 * d + 1)
    IN  [panic          |-> sq2.panic,
         fenwick        |-> add(st.fenwick, u, 1),
         active_squares |-> sq2.v,
         active_degrees |-> st.active_degrees]

\* the body of the statistics loop `for &u in &e` (lines 76-81 and 93-98) for
\* one occurrence u; st = [panic, fenwick, active_squares, active_degrees].
\* `deg` is read from hypergraph.degree, which add_edge updates only after
\* the loop.
StatsStep(deg, st, u) ==
    LET d   == deg[u + 1]
        dg2 == AddU32(st.active_degrees, 1)
        sq2 == AddU32(st.active_squares, 2 * d + 1)
    IN  [panic          |-> dg2.panic \/ sq2.panic,
         fenwick        |-> add(st.fenwick, u, 1),
         active_squares |-> sq2.v,
         active_degrees |-> dg2.v]

\* the statistics loop over e[k..]
RECURSIVE StatsLoop(_, _, _, _)
StatsLoop(deg, st, e, k) ==
    IF k > Len(e) \/ st.panic THEN st
    ELSE StatsLoop(deg, StatsStep(deg, st, e[k]), e, k + 1)

\* the ratio with numerator and denominator exchanged
RatioInverted(sq, dg) == <<dg, sq>>

\* `active_squares as f64 / active_degrees as f64`, kept as the pair
Ratio(sq, dg) == <<sq, dg>>

\* theta that starts empty, one value per step
InitialThetaEmpty(sq, dg) == <<>>

\* line 57: `vec![active_squares as f64 / active_degrees as f64]`
InitialTheta(sq, dg) == <<Ratio(sq, dg)>>

Hypergraph == [vertices |-> vertices, edges |-> edges, degree |-> degree]

\* a panic ends the process; nothing is returned to the caller
Panic ==
    /\ pc' = "panic"
    /\ UNCHANGED <<model, steps, retries, overflow_checks, result, attempts, failures,
                   retry_i, t, event, vertices, edges, degree, fenwick, active_squares,
                   active_degrees, theta, deactivated, plain, sample, error, random, Cli>>

\* lines 41-57 with `theta` kept from the previous attempt and extended
RunStartKeepingTheta ==
    LET f0 == of_size(steps)
    IN  IF Len(f0.items) = 0
        THEN /\ pc' = "panic"
             /\ UNCHANGED <<t, event, vertices, edges, degree, fenwick, active_squares,
                            active_degrees, theta, deactivated, error, random, Cli>>
        ELSE /\ pc' = "run"
             /\ t' = 0
             /\ event' = "none"
             /\ vertices' = initial.vertices
             /\ edges' = initial.edges
             /\ degree' = initial.degree
             /\ fenwick' = set(f0, 0, initial.degree[1])
             /\ active_squares' = initial.degree[1] * initial.degree[1]
             /\ active_degrees' = initial.degree[1]
             /\ theta' = theta \o InitialTheta(initial.degree[1] * initial.degree[1], initial.degree[1])
             /\ deactivated' = {}

\* lines 41-57: the state Simulation::run builds before its loop.
\* `fenwick.set(0, 1)` reads items[0], which panics on a tree of size 0.
RunStart ==
    LET f0 == of_size(steps)
    IN  IF Len(f0.items) = 0
        THEN /\ pc' = "panic"
             /\ UNCHANGED <<t, event, vertices, edges, degree, fenwick, active_squares,
                            active_degrees, theta, deactivated, error, random, Cli>>
        ELSE /\ pc' = "run"
             /\ t' = 0
             /\ event' = "none"
             /\ vertices' = initial.vertices
             /\ edges' = initial.edges
             /\ degree' = initial.degree
             /\ fenwick' = set(f0, 0, initial.degree[1])
             /\ active_squares' = initial.degree[1] * initial.degree[1]
             /\ active_degrees' = initial.degree[1]
             /\ theta' = InitialTheta(initial.degree[1] * initial.degree[1], initial.degree[1])
             /\ deactivated' = {}

\* the part of an arrival event after the edge e is drawn: statistics loop,
\* add_edge, theta.push; `draws` values were drawn from `random` (p and the
\* samples)
Arrive(h, e, ev, draws) ==
    LET st == StatsLoop(h.degree,
                        [panic |-> FALSE, fenwick |-> fenwick,
                         active_squares |-> active_squares,
                         active_degrees |-> active_degrees], e, 1)
        h2 == add_edge(h, e)
    IN  IF st.panic
        THEN Panic
        ELSE /\ vertices' = h2.vertices
             /\ edges' = h2.edges
             /\ degree' = h2.degree
             /\ fenwick' = st.fenwick
             /\ active_squares' = st.active_squares
             /\ active_degrees' = st.active_degrees
             /\ theta' = Append(theta, Ratio(st.active_squares, st.active_degrees))
             /\ t' = t + 1
             /\ event' = ev
             /\ random' = random + draws
             /\ UNCHANGED <<model, steps, retries, overflow_checks, pc, result, attempts,
                            failures, retry_i, deactivated, plain, sample, error, Cli>>

\* the loop head without the check of `active_degrees == 0`
InLoopUnchecked == pc = "run" /\ t < steps

\* lines 60-65: an iteration that passes the check of line 61 and draws p
InLoop == pc = "run" /\ t < steps /\ active_degrees # 0

\* lines 68-85
VertexArrival ==
    /\ InLoop
    /\ \E p \in PDraws : IsVertexArrival(model, p)
    /\ LET h == add_vertex(Hypergraph)
           v == vertices
           m == size(model, t + 1)
       IN  IF m - 1 > 0 /\ fenwick.total < 1
           THEN Panic
           ELSE \E s \in sample_many(fenwick, m - 1) :
                    Arrive(h, Append(s, v), "VertexArrival", 1 + (m - 1))

\* lines 88-102
EdgeArrival ==
    /\ InLoop
    /\ \E p \in PDraws : IsEdgeArrival(model, p)
    /\ LET m == size(model, t + 1)
       IN  IF m > 0 /\ fenwick.total < 1
           THEN Panic
           ELSE \E e \in sample_many(fenwick, m) :
                    Arrive(Hypergraph, e, "EdgeArrival", 1 + m)

\* lines 105-113, then theta.push
VertexDeactivation ==
    /\ InLoop
    /\ \E p \in PDraws : IsVertexDeactivation(model, p)
    /\ IF fenwick.total < 1
       THEN Panic
       ELSE \E v \in SampleOne(fenwick) :
                LET deg == degree[v + 1]
                    dg == SubU32(active_degrees, deg)
                    sq == SubU32(active_squares, deg * deg)
                IN  IF dg.panic \/ sq.panic
                    THEN Panic
                    ELSE /\ fenwick' = set(fenwick, v, 0)
                         /\ active_degrees' = dg.v
                         /\ active_squares' = sq.v
                         /\ theta' = Append(theta, Ratio(sq.v, dg.v))
                         /\ deactivated' = deactivated \cup {v}
                         /\ t' = t + 1
                         /\ event' = "VertexDeactivation"
                         /\ random' = random + 2
                         /\ UNCHANGED <<model, steps, retries, overflow_checks, pc,
                                        result, attempts, failures, retry_i, vertices,
                                        edges, degree, plain, sample, error, Cli>>

\* line 62: the error value of Simulation::run
Exhaustion == [kind |-> "Exhaustion", message |-> "All vertices have been deactivated"]

\* lines 61-63: return Err("All vertices have been deactivated")
Exhausted ==
    /\ pc = "run" /\ t < steps /\ active_degrees = 0
    /\ pc' = "result"
    /\ result' = "Err"
    /\ failures' = failures + 1
    /\ error' = Exhaustion
    /\ UNCHANGED <<model, steps, retries, overflow_checks, attempts, retry_i, t, event,
                   vertices, edges, degree, fenwick, active_squares, active_degrees,
                   theta, deactivated, plain, sample, random, Cli>>

\* line 118: Ok(Simulation { model, hypergraph, steps, theta })
Finish ==
    /\ pc = "run" /\ t = steps
    /\ pc' = "result"
    /\ result' = "Ok"
    /\ error' = "none"
    /\ UNCHANGED <<model, steps, retries, overflow_checks, attempts, failures, retry_i, t,
                   event, vertices, edges, degree, fenwick, active_squares,
                   active_degrees, theta, deactivated, plain, sample, random, Cli>>

-----------------------------------------------------------------------------
(* Model::generate: src/src/core/model.rs lines 78-93 *)

\* a retry loop that does not test `result.is_err()`
ShouldRetryAnyResult(res, i, n) == i < n

\* a retry loop over `0..=retries`
ShouldRetryInclusive(res, i, n) == i <= n /\ res = "Err"

\* lines 83-85: the retry loop `for _ in 0..retries` has an iteration left
\* (i iterations started) and finds `result.is_err()`
ShouldRetry(res, i, n) == i < n /\ res = "Err"

\* line 80: the first Simulation::run
Generate ==
    /\ pc = "call"
    /\ attempts' = attempts + 1
    /\ RunStart
    /\ UNCHANGED <<model, steps, retries, overflow_checks, result, failures, retry_i,
                   plain, sample, error, random, Cli>>

\* lines 83-86: an iteration of `for _ in 0..retries` that finds result.is_err()
Retry ==
    /\ pc = "result" /\ ShouldRetry(result, retry_i, retries)
    /\ retry_i' = retry_i + 1
    /\ attempts' = attempts + 1
    /\ RunStart
    /\ UNCHANGED <<model, steps, retries, overflow_checks, result, failures, plain, sample, error, random, Cli>>

\* lines 87-89 and 92: `break` on a success, or the end of the loop; return result
Return ==
    /\ pc = "result" /\ ~ShouldRetry(result, retry_i, retries)
    /\ pc' = "returned"
    /\ UNCHANGED <<model, steps, retries, overflow_checks, result, attempts, failures,
                   retry_i, t, event, vertices, edges, degree, fenwick, active_squares,
                   active_degrees, theta, deactivated, plain, sample, error, random, Cli>>

Init ==
    /\ model \in Models
    /\ steps \in 0..MaxSteps
    /\ retries \in 0..MaxRetries
    /\ overflow_checks \in BOOLEAN
    /\ pc = "call"
    /\ result = "none"
    /\ attempts = 0
    /\ failures = 0
    /\ retry_i = 0
    /\ t = 0
    /\ event = "none"
    /\ vertices = 0
    /\ edges = <<>>
    /\ degree = <<>>
    /\ fenwick = of_size(0)
    /\ active_squares = 0
    /\ active_degrees = 0
    /\ theta = <<>>
    /\ deactivated = {}
    /\ plain = <<>>
    /\ sample = <<>>
    /\ error = "none"
    /\ random = 0
    /\ args = <<>>
    /\ retry = FALSE

Next ==
    \/ Generate
    \/ VertexArrival
    \/ EdgeArrival
    \/ VertexDeactivation
    \/ Exhausted
    \/ Finish
    \/ Retry
    \/ Return

Spec == Init /\ [][Next]_vars

------------------------------------------------------------------------------
(* One call model.generate(steps, 0) with a step more than MaxSteps, for    *)
(* the models in which every event can happen: long enough for events that  *)
(* follow a deactivation in the same run.                                   *)

LongSteps == MaxSteps + 1

\* the models with pv, pe, pd > 0
EventfulModels == {mo \in Models : mo.pe > 0 /\ mo.pd > 0}

LongRunInit ==
    /\ model \in EventfulModels
    /\ steps \in 0..LongSteps
    /\ retries = 0
    /\ overflow_checks \in BOOLEAN
    /\ pc = "call"
    /\ result = "none"
    /\ attempts = 0
    /\ failures = 0
    /\ retry_i = 0
    /\ t = 0
    /\ event = "none"
    /\ vertices = 0
    /\ edges = <<>>
    /\ degree = <<>>
    /\ fenwick = of_size(0)
    /\ active_squares = 0
    /\ active_degrees = 0
    /\ theta = <<>>
    /\ deactivated = {}
    /\ plain = <<>>
    /\ sample = <<>>
    /\ error = "none"
    /\ random = 0
    /\ args = <<>>
    /\ retry = FALSE

\* with retries = 0 the loop of Model::generate has no iteration
LongRunNext ==
    \/ Generate
    \/ VertexArrival
    \/ EdgeArrival
    \/ VertexDeactivation
    \/ Exhausted
    \/ Finish
    \/ Return

LongRunSpec == LongRunInit /\ [][LongRunNext]_vars

------------------------------------------------------------------------------
(* Model::new on its own: every argument tuple within the bounds, the       *)
(* probabilities finite (also negative) or NaN.                             *)

Floats == ((0 - 1)..Den) \cup {NaN}

ModelInit ==
    /\ args \in Floats \X Floats \X Floats \X (0..MaxM)
    /\ model = "none"
    /\ steps = 0
    /\ retries = 0
    /\ overflow_checks = TRUE
    /\ pc = "new"
    /\ result = "none"
    /\ attempts = 0
    /\ failures = 0
    /\ retry_i = 0
    /\ t = 0
    /\ event = "none"
    /\ vertices = 0
    /\ edges = <<>>
    /\ degree = <<>>
    /\ fenwick = of_size(0)
    /\ active_squares = 0
    /\ active_degrees = 0
    /\ theta = <<>>
    /\ deactivated = {}
    /\ plain = <<>>
    /\ sample = <<>>
    /\ error = "none"
    /\ random = 0
    /\ retry = FALSE

\* Model::new(pv, pe, pd, m) called and returned
ModelNewCall ==
    /\ pc = "new"
    /\ LET r == ModelNew(args[1], args[2], args[3], args[4])
       IN  /\ result' = IF r.ok THEN "Ok" ELSE "Err"
           /\ model' = r.model
           /\ error' = r.error
    /\ pc' = "new_returned"
    /\ UNCHANGED <<steps, retries, overflow_checks, attempts, failures, retry_i, t,
                   event, vertices, edges, degree, fenwick, active_squares,
                   active_degrees, theta, deactivated, plain, sample, random, Cli>>

ModelNext == ModelNewCall

ModelSpec == ModelInit /\ [][ModelNext]_vars

------------------------------------------------------------------------------
(* The binary of src/src/main.rs with the engine Hypergraph::generate of    *)
(* src/src/hypergraph.rs.  `vertices` is its field `nodes`, `steps` its     *)
(* argument `t`, `args` the command line's pv, pe, pd, m (finite values).   *)

\* the most calls of Hypergraph::generate the model follows `main` through
MaxAttempts == 3

\* the state of Hypergraph::generate, next to `pc`
HypergraphVars == <<t, event, vertices, edges, degree, fenwick, active_squares,
                    active_degrees, theta, deactivated>>

\* what a call of Hypergraph::generate leaves alone before its loop
CallerVars == <<model, steps, retries, overflow_checks, retry_i, plain, sample,
                random, Cli>>

\* `return Err(msg)` of a parameter check: nothing has been constructed
Invalid(msg) ==
    /\ pc' = "main_result"
    /\ result' = "Err"
    /\ error' = ValidationError(msg)
    /\ failures' = failures + 1
    /\ UNCHANGED HypergraphVars

\* hypergraph.rs 75-85: the parameter checks, then Hypergraph::initial(t),
\* whose `fenwick.add(0, 1)` counts the weight in `total` for any capacity
HypergraphGenerate ==
    IF FLt(args[1], 0) \/ FLt(args[2], 0) \/ FLt(args[3], 0)
    THEN Invalid("Expected pv, pe and pd to be positive")
    ELSE IF NotOne(args[1], args[2], args[3])
    THEN Invalid("Expected pv, pe and pd to sum up to 1")
    ELSE IF FLe(args[1], args[3])
    THEN Invalid("Expected pv > pd to hold")
    ELSE /\ pc' = "generate"
         /\ t' = 0
         /\ event' = "none"
         /\ vertices' = 1
         /\ edges' = << <<0>> >>
         /\ degree' = <<1>>
         /\ fenwick' = add(of_size(steps), 0, 1)
         /\ active_squares' = 1
         /\ active_degrees' = 1
         /\ theta' = << Ratio(1, 1) >>
         /\ deactivated' = {}
         /\ UNCHANGED <<result, error, failures>>

\* the parameters of the call as a record
Parameters == [pv |-> args[1], pe |-> args[2], pd |-> args[3], m |-> args[4]]

\* hypergraph.rs 144-157, the loop of add_edge over e[k..]: the degree is
\* read and incremented per occurrence;
\* st = [panic, degree, fenwick, active_squares, active_degrees]
RECURSIVE LegacyAddEdgeLoop(_, _, _)
LegacyAddEdgeLoop(st, e, k) ==
    IF k > Len(e) \/ st.panic THEN st
    ELSE LET v   == e[k]
             d   == st.degree[v + 1]
             dg2 == AddU32(st.active_degrees, 1)
             sq2 == AddU32(st.active_squares, 2 * d + 1)
         IN  LegacyAddEdgeLoop(
                 [panic          |-> dg2.panic \/ sq2.panic,
                  degree         |-> [st.degree EXCEPT ![v + 1] = d + 1],
                  fenwick        |-> add(st.fenwick, v, 1),
                  active_squares |-> sq2.v,
                  active_degrees |-> dg2.v], e, k + 1)

\* an arrival after the edge e is drawn: add_edge (144-157), theta.push (118-121)
LegacyArrive(deg, n, e, ev, draws) ==
    LET st == LegacyAddEdgeLoop([panic |-> FALSE, degree |-> deg, fenwick |-> fenwick,
                                 active_squares |-> active_squares,
                                 active_degrees |-> active_degrees], e, 1)
    IN  IF st.panic
        THEN Panic
        ELSE /\ vertices' = n
             /\ edges' = Append(edges, e)
             /\ degree' = st.degree
             /\ fenwick' = st.fenwick
             /\ active_squares' = st.active_squares
             /\ active_degrees' = st.active_degrees
             /\ theta' = Append(theta, Ratio(st.active_squares, st.active_degrees))
             /\ t' = t + 1
             /\ event' = ev
             /\ random' = random + draws
             /\ UNCHANGED <<model, steps, retries, overflow_checks, pc, result, attempts,
                            failures, retry_i, deactivated, plain, sample, error, Cli>>

\* hypergraph.rs 87-92: an iteration of `for i in 1..=t` that draws p
InLegacyLoop == pc = "generate" /\ t < steps /\ active_degrees # 0

\* hypergraph.rs 95-103.  With m = 0 the size `m - 1` underflows: the debug
\* profile panics on the subtraction, the release profile on the allocation
\* of a vector of usize::MAX samples.
LegacyVertexArrival ==
    /\ InLegacyLoop
    /\ \E p \in PDraws : IsVertexArrival(Parameters, p)
    /\ LET v == vertices
           m == args[4]
       IN  IF m < 1 \/ (m - 1 > 0 /\ fenwick.total < 1)
           THEN Panic
           ELSE \E s \in sample_many(fenwick, m - 1) :
                    LegacyArrive(Append(degree, 0), vertices + 1, Append(s, v),
                                 "VertexArrival", 1 + (m - 1))

\* hypergraph.rs 105-110
LegacyEdgeArrival ==
    /\ InLegacyLoop
    /\ \E p \in PDraws : IsEdgeArrival(Parameters, p)
    /\ LET m == args[4]
       IN  IF m > 0 /\ fenwick.total < 1
           THEN Panic
           ELSE \E e \in sample_many(fenwick, m) :
                    LegacyArrive(degree, vertices, e, "EdgeArrival", 1 + m)

\* hypergraph.rs 112-116 with deactivate_vertex (163-170), then theta.push
LegacyVertexDeactivation ==
    /\ InLegacyLoop
    /\ \E p \in PDraws : IsVertexDeactivation(Parameters, p)
    /\ IF fenwick.total < 1
       THEN Panic
       ELSE \E v \in SampleOne(fenwick) :
                LET d  == degree[v + 1]
                    dg == SubU32(active_degrees, d)
                    sq == SubU32(active_squares, d * d)
                IN  IF dg.panic \/ sq.panic
                    THEN Panic
                    ELSE /\ fenwick' = set(fenwick, v, 0)
                         /\ active_degrees' = dg.v
                         /\ active_squares' = sq.v
                         /\ theta' = Append(theta, Ratio(sq.v, dg.v))
                         /\ deactivated' = deactivated \cup {v}
                         /\ t' = t + 1
                         /\ event' = "VertexDeactivation"
                         /\ random' = random + 2
                         /\ UNCHANGED <<model, steps, retries, overflow_checks, pc,
                                        result, attempts, failures, retry_i, vertices,
                                        edges, degree, plain, sample, error, Cli>>

\* hypergraph.rs 88-90: return Err("All vertices have been deactivated")
LegacyExhausted ==
    /\ pc = "generate" /\ t < steps /\ active_degrees = 0
    /\ pc' = "main_result"
    /\ result' = "Err"
    /\ error' = Exhaustion
    /\ failures' = failures + 1
    /\ UNCHANGED HypergraphVars
    /\ UNCHANGED <<attempts, CallerVars>>

\* hypergraph.rs 124: Ok(hypergraph)
LegacyFinish ==
    /\ pc = "generate" /\ t = steps
    /\ pc' = "main_result"
    /\ result' = "Ok"
    /\ error' = "none"
    /\ UNCHANGED HypergraphVars
    /\ UNCHANGED <<attempts, failures, CallerVars>>

\* main.rs 43: the first Hypergraph::generate
MainGenerate ==
    /\ pc = "main"
    /\ attempts' = attempts + 1
    /\ HypergraphGenerate
    /\ UNCHANGED CallerVars

\* main.rs 45-47: `while retry && result.is_err()` calls generate again
MainRetry ==
    /\ pc = "main_result"
    /\ retry /\ result = "Err"
    /\ attempts < MaxAttempts
    /\ attempts' = attempts + 1
    /\ HypergraphGenerate
    /\ UNCHANGED CallerVars

\* main.rs 49: `result.unwrap()` panics on an Err; an Ok is saved
MainUnwrap ==
    /\ pc = "main_result"
    /\ ~(retry /\ result = "Err")
    /\ pc' = IF result = "Err" THEN "panic" ELSE "saved"
    /\ UNCHANGED HypergraphVars
    /\ UNCHANGED <<result, error, attempts, failures, CallerVars>>

MainInit ==
    /\ args \in ((0 - 1)..Den) \X ((0 - 1)..Den) \X ((0 - 1)..Den) \X (0..MaxM)
    /\ steps \in 0..MaxSteps
    /\ retry \in BOOLEAN
    /\ overflow_checks \in BOOLEAN
    /\ model = "none"
    /\ retries = 0
    /\ pc = "main"
    /\ result = "none"
    /\ attempts = 0
    /\ failures = 0
    /\ retry_i = 0
    /\ t = 0
    /\ event = "none"
    /\ vertices = 0
    /\ edges = <<>>
    /\ degree = <<>>
    /\ fenwick = of_size(0)
    /\ active_squares = 0
    /\ active_degrees = 0
    /\ theta = <<>>
    /\ deactivated = {}
    /\ plain = <<>>
    /\ sample = <<>>
    /\ error = "none"
    /\ random = 0

MainNext ==
    \/ MainGenerate
    \/ LegacyVertexArrival
    \/ LegacyEdgeArrival
    \/ LegacyVertexDeactivation
    \/ LegacyExhausted
    \/ LegacyFinish
    \/ MainRetry
    \/ MainUnwrap

MainSpec == MainInit /\ [][MainNext]_vars

-----------------------------------------------------------------------------
(* A Fenwick tree on its own: any capacity, any sequence of add and set   *)
(* with i < capacity, next to a plain array updated by the same calls,    *)
(* and draws of sample_one.                                               *)

SimVars == <<model, steps, retries, overflow_checks, pc, result, attempts, failures,
             retry_i, t, vertices, edges, degree, active_squares,
             active_degrees, theta, deactivated, error, random, Cli>>

\* the weights the harness stores
Weights == (0 - 1)..MaxWeight

FenwickInit ==
    /\ model = [pv |-> Den, pe |-> 0, pd |-> 0, m |-> 1]
    /\ steps = 0
    /\ retries = 0
    /\ overflow_checks = TRUE
    /\ pc = "fenwick"
    /\ result = "none"
    /\ attempts = 0
    /\ failures = 0
    /\ retry_i = 0
    /\ t = 0
    /\ event = "none"
    /\ vertices = 0
    /\ edges = <<>>
    /\ degree = <<>>
    /\ active_squares = 0
    /\ active_degrees = 0
    /\ theta = <<>>
    /\ deactivated = {}
    /\ \E n \in 0..MaxCap :
        /\ fenwick = of_size(n)
        /\ plain = Zeroes(n)
    /\ sample = <<>>
    /\ error = "none"
    /\ random = 0
    /\ args = <<>>
    /\ retry = FALSE

\* fenwick.add(i, d)
FenwickAdd ==
    /\ pc = "fenwick"
    /\ \E i \in 0..(Len(plain) - 1), d \in {0 - 1, 1, 2} :
        /\ plain[i + 1] + d \in Weights
        /\ fenwick' = add(fenwick, i, d)
        /\ plain' = [plain EXCEPT ![i + 1] = @ + d]
    /\ sample' = <<>>
    /\ event' = "add"
    /\ UNCHANGED SimVars

\* fenwick.set(i, x)
FenwickSet ==
    /\ pc = "fenwick"
    /\ \E i \in 0..(Len(plain) - 1), x \in Weights :
        /\ fenwick' = set(fenwick, i, x)
        /\ plain' = [plain EXCEPT ![i + 1] = x]
    /\ sample' = <<>>
    /\ event' = "set"
    /\ UNCHANGED SimVars

\* fenwick.sample_one(random) with the draw x of gen_range(1..=total), which
\* panics on an empty range; sample = <<x, returned index>>
FenwickSample ==
    /\ pc = "fenwick"
    /\ fenwick.total >= 1
    /\ \E x \in 1..fenwick.total : sample' = <<x, sample_one(fenwick, x)>>
    /\ event' = "sample_one"
    /\ UNCHANGED <<fenwick, plain>>
    /\ UNCHANGED SimVars

FenwickNext ==
    \/ FenwickAdd
    \/ FenwickSet
    \/ FenwickSample

FenwickSpec == FenwickInit /\ [][FenwickNext]_vars

-----------------------------------------------------------------------------
(* Quantities the properties speak of, computed from scratch. *)

RECURSIVE SumSeq(_)
SumSeq(q) == IF q = <<>> THEN 0 ELSE q[1] + SumSeq(Tail(q))

\* the number of positions of the edge e that hold v
OccurrencesIn(v, e) == Cardinality({k \in DOMAIN e : e[k] = v})

\* the number of occurrences of v across all edges
Occurrences(v) == SumSeq([n \in DOMAIN edges |-> OccurrencesIn(v, edges[n])])

VertexIds == 0..(vertices - 1)

ActiveVertices == VertexIds \ deactivated

\* the sum of degree[v]^k over the active vertices, k = 1 or 2
ActiveDegreeSum == SumSeq([n \in DOMAIN degree |->
                             IF (n - 1) \in ActiveVertices THEN degree[n] ELSE 0])

ActiveSquareSum == SumSeq([n \in DOMAIN degree |->
                             IF (n - 1) \in ActiveVertices THEN degree[n] * degree[n] ELSE 0])

\* Simulation::run has built its state and has not panicked
InRun == pc \in {"run", "result", "returned"}

\* Simulation::run has returned Ok
Succeeded == pc \in {"result", "returned"} /\ result = "Ok"

\* one iteration of the loop of Simulation::run applies an event
EventApplied == pc = "run" /\ pc' = "run" /\ t' = t + 1

\* the brute-force sum of the plain array over [i, j)
PlainSum(i, j) == SumSeq([k \in 1..(j - i) |-> plain[i + k]])

-----------------------------------------------------------------------------
(* C1: in every state of a run, degree[v] is the number of occurrences of   *)
(* v across all edges (repetitions inside an edge counted), the sum of the  *)
(* degrees is the sum of the edge sizes, and within a run no degree         *)
(* decreases from one step to the next.                                     *)

C1Handshake ==
    InRun =>
        /\ Len(degree) = vertices
        /\ \A v \in VertexIds : degree[v + 1] = Occurrences(v)
        /\ SumSeq(degree) = SumSeq([n \in DOMAIN edges |-> Len(edges[n])])

C1Monotone ==
    (InRun /\ attempts' = attempts) =>
        \A n \in DOMAIN degree : n \in DOMAIN degree' /\ degree'[n] >= degree[n]

C1 == []C1Handshake /\ [][C1Monotone]_vars

\* an edge that holds the same vertex twice has been added
C1Witness ==
    /\ InRun
    /\ \E n \in DOMAIN edges : Len(edges[n]) = 2 /\ edges[n][1] = edges[n][2]
    /\ degree[1] = 3

(* C2: after every applied event, active_squares is the sum of degree[v]^2  *)
(* over the active vertices, also when an edge holds a vertex id twice.     *)

C2 == InRun => active_squares = ActiveSquareSum

(* C3: after every applied event, active_degrees is the sum of degree[v]    *)
(* over the active vertices.                                                *)

C3 == InRun => active_degrees = ActiveDegreeSum

\* a deactivation has removed one vertex of several
C3Witness ==
    /\ InRun
    /\ event = "VertexDeactivation"
    /\ deactivated # {}
    /\ active_degrees > 0

(* C4: for every capacity and every sequence of add and set with            *)
(* i < capacity, sum(i, j) is the brute-force sum of the plain array over   *)
(* [i, j), for all 0 <= i <= j <= capacity.                                 *)

C4 ==
    pc = "fenwick" =>
        \A i \in 0..Len(plain) : \A j \in i..Len(plain) :
            sum(fenwick, i, j) = PlainSum(i, j)

\* a tree of capacity 4 with a negative and a positive weight
C4Witness ==
    /\ pc = "fenwick"
    /\ plain = <<1, 0 - 1, 0, 2>>
    /\ sum(fenwick, 1, 4) = 1

(* C5: with non-negative weights and total > 0, for every x in [1, total]   *)
(* sample_one returns the smallest index i whose prefix sum over [0, i]     *)
(* reaches x; exactly weight(i) values of x map to i, and an index of       *)
(* weight 0 is never returned.                                              *)

\* the smallest index whose brute-force prefix sum reaches x
SmallestReaching(x) ==
    CHOOSE i \in 0..(Len(plain) - 1) :
        /\ PlainSum(0, i + 1) >= x
        /\ \A k \in 0..(i - 1) : PlainSum(0, k + 1) < x

C6 ==
    Succeeded =>
        /\ active_degrees # 0
        /\ \A k \in DOMAIN theta : theta[k][2] # 0

(* C7: theta has t + 1 values after t steps, and steps + 1 values in every  *)
(* successful result.                                                       *)

SameValue(r, q) ==
    \/ r = q
    \/ /\ r[1] >= 0 /\ r[2] > 0 /\ q[1] >= 0 /\ q[2] > 0
       /\ r[1] * q[2] = q[1] * r[2]

C8Before ==
    [][EventApplied =>
          SameValue(theta'[Len(theta')], <<active_squares, active_degrees>>)]_vars

(* C8 as amended: the value recorded for step t is                          *)
(* active_squares / active_degrees of the state after the event of step t   *)
(* is applied; the values recorded earlier are kept.                        *)

C8 ==
    [][EventApplied =>
          /\ Len(theta') = Len(theta) + 1
          /\ SubSeq(theta', 1, Len(theta)) = theta
          /\ theta'[Len(theta')] = <<active_squares', active_degrees'>>]_vars

\* the first step added the edge [0, 0]: the ratio 1/1 before, 7/3 after
C8Witness ==
    /\ pc = "run"
    /\ event = "EdgeArrival"
    /\ theta = << <<1, 1>>, <<7, 3>> >>

(* C9: Model::generate invokes Simulation::run once, re-invokes it only     *)
(* after a failed attempt and at most `retries` more times, and makes no    *)
(* invocation after a success, whose result it returns.                     *)

C9Counts ==
    /\ attempts <= retries + 1
    /\ pc # "call" => attempts >= 1
    /\ pc = "run" => failures = attempts - 1
    /\ Succeeded => failures = attempts - 1

C9Invocation ==
    /\ attempts' # attempts =>
          /\ attempts' = attempts + 1
          /\ attempts = 0 \/ (pc = "result" /\ result = "Err")
    /\ Succeeded => (attempts' = attempts /\ result' = "Ok")

C9 == []C9Counts /\ [][C9Invocation]_vars

\* the second attempt succeeded and was returned with a retry left
C9Witness ==
    /\ pc = "returned"
    /\ result = "Ok"
    /\ attempts = 2
    /\ retries = 2

(* C10 as stated: when the first k >= retries attempts fail (k >= 1), the   *)
(* driver returns a failure.                                                *)

C11 ==
    (pc = "returned" /\ result = "Err" /\ failures = attempts) =>
        /\ error # Exhaustion
        /\ error.kind = "RetryExhausted"
        /\ error.attempts = attempts

\* the state one invocation of Simulation::run starts its loop in
StartsInitial ==
    /\ t' = 0
    /\ vertices' = 1
    /\ edges' = << <<0>> >>
    /\ degree' = <<1>>
    /\ Len(fenwick'.items) = steps
    /\ fenwick'.total = 1
    /\ get(fenwick', 0) = 1
    /\ \A v \in 1..(steps - 1) : get(fenwick', v) = 0
    /\ active_degrees' = 1
    /\ active_squares' = 1
    /\ theta' = << Ratio(1, 1) >>
    /\ deactivated' = {}

\* an invocation of Simulation::run that has built its state
AttemptStarts == attempts' # attempts /\ pc' = "run"

\* the generator is advanced by the events and never reset
C12Random ==
    /\ random' >= random
    /\ attempts' # attempts => random' = random

\* a returned or running attempt holds only what its own t events produced
C12OwnProgress ==
    InRun => /\ Len(theta) = t + 1
             /\ Len(edges) + Cardinality(deactivated) = t + 1
             /\ vertices <= t + 1

(* C12: every attempt of the retry driver starts from the initial state     *)
(* (one vertex, edges [[0]], degree [1], a fresh index with weight 1 at     *)
(* position 0, active totals 1, theta [1.0]) whatever the failed attempts   *)
(* before it did; a result holds only the vertices, edges and theta values  *)
(* of its own attempt; the random stream is carried over, not reset.        *)

C12 ==
    /\ [][AttemptStarts => StartsInitial]_vars
    /\ [][C12Random]_vars
    /\ []C12OwnProgress

\* a second attempt succeeded after a first one that had pushed a theta
\* value and drawn two random values before it failed
C12Witness ==
    /\ Succeeded
    /\ attempts = 2
    /\ t = 2
    /\ Len(theta) = 3
    /\ random >= 4


\* the constraints of a model on the arguments of the call
ValidArgs ==
    LET pv == args[1]
        pe == args[2]
        pd == args[3]
        m  == args[4]
    IN  /\ pv # NaN /\ pe # NaN /\ pd # NaN
        /\ pv >= 0 /\ pe >= 0 /\ pd >= 0
        /\ pv + pe + pd = Den
        /\ pv > pd
        /\ m >= 1

(* C13: Model::new(pv, pe, pd, m) returns Ok exactly when pv, pe, pd >= 0,  *)
(* pv + pe + pd = 1, pv > pd and m >= 1 all hold, a validation error        *)
(* otherwise, and the returned model holds the given pv, pe, pd, m.         *)

C13 ==
    pc = "new_returned" =>
        /\ result = "Ok" <=> ValidArgs
        /\ result = "Err" => error.kind = "Validation"
        /\ result = "Ok" =>
              model = [pv |-> args[1], pe |-> args[2], pd |-> args[3], m |-> args[4]]


\* a parameter check of the engine has failed
ValidationFailed == result = "Err" /\ error.kind = "Validation"

(* C14: when the model parameters are invalid, the validation error is      *)
(* surfaced before any simulation state is created or any step is executed, *)
(* and no retry driver calls the engine again after a validation error.     *)

C14 ==
    ValidationFailed =>
        /\ vertices = 0 /\ edges = <<>> /\ degree = <<>> /\ theta = <<>>
        /\ t = 0 /\ random = 0
        /\ attempts = 1

(* C15: for every step count steps >= 0 a run starts in the initial state:  *)
(* one vertex, the single edge [0], degree [1], active_degrees =            *)
(* active_squares = 1 and theta[0] = 1.0.                                   *)

C15 ==
    [][attempts' # attempts =>
          /\ pc' = "run"
          /\ vertices' = 1 /\ edges' = << <<0>> >> /\ degree' = <<1>>
          /\ active_degrees' = 1 /\ active_squares' = 1
          /\ theta' = << Ratio(1, 1) >>]_vars

\* one step of a run changes the vertex count by 1 on a VertexArrival only
C16Step ==
    EventApplied =>
        /\ vertices' >= vertices
        /\ event' = "VertexArrival" => vertices' = vertices + 1
        /\ event' \in {"EdgeArrival", "VertexDeactivation"} => vertices' = vertices

(* C16: across the steps of a run the vertex count never decreases; it      *)
(* grows by exactly 1 in a VertexArrival step and is unchanged in an        *)
(* EdgeArrival or VertexDeactivation step; it always equals the length of   *)
(* the degree sequence.                                                     *)

C16 == [](InRun => vertices = Len(degree)) /\ [][C16Step]_vars

\* a vertex arrived and then a deactivation left the count alone
C16Witness ==
    /\ pc = "run"
    /\ t = 2
    /\ event = "VertexDeactivation"
    /\ vertices = 2

(* C17: at every step boundary of a run, for every created vertex v, the    *)
(* index weight at position v is degree[v] if v is active and 0 if v has    *)
(* been deactivated.                                                        *)

C17 ==
    InRun => \A v \in VertexIds :
                /\ v < Len(fenwick.items)
                /\ get(fenwick, v) = IF v \in deactivated THEN 0 ELSE degree[v + 1]

(* C18: in every VertexDeactivation a run can reach, the sampled vertex's   *)
(* degree d satisfies d <= active_degrees and d * d <= active_squares when  *)
(* they are subtracted, so neither u32 subtraction underflows.              *)

C18 ==
    (InLoop /\ (\E p \in PDraws : IsVertexDeactivation(model, p))) =>
        \A v \in SampleOne(fenwick) :
            /\ ~LtU32(active_degrees, degree[v + 1])
            /\ ~LtU32(active_squares, degree[v + 1] * degree[v + 1])

(* C19: for every step count steps >= 0 the capacity of the index of a run  *)
(* is at least the number of vertices created in the run, so every position *)
(* the run reads or writes is below the capacity.                           *)

C19 ==
    /\ pc # "call" => Len(of_size(steps).items) >= initial.vertices
    /\ InRun => vertices <= Len(fenwick.items)

(* C20: in every state of a run the field `total` of the index is the sum   *)
(* of the weights at the positions [0, capacity).                           *)

C20 == InRun => fenwick.total = sum(fenwick, 0, Len(fenwick.items))


\* a step of the loop that has called sample_one (it drew more than p), or
\* that panicked
SamplingStep == pc = "run" /\ (random' >= random + 2 \/ pc' = "panic")

(* C21: within a run sample_one is never called while the total of the      *)
(* index is 0: the total equals active_degrees at every step boundary, and  *)
(* the check of active_degrees == 0 at the head of a step comes before      *)
(* every sampling call of the step.                                         *)

C21 ==
    /\ [](InRun => fenwick.total = active_degrees)
    /\ [](InLoop => fenwick.total >= 1)
    /\ [][SamplingStep => (InLoop /\ fenwick.total >= 1)]_vars

\* a vertex was sampled for deactivation while another one stayed active
C21Witness ==
    /\ pc = "run"
    /\ event = "VertexDeactivation"
    /\ Cardinality(deactivated) = 1
    /\ fenwick.total >= 1


\* the edge a step has appended
NewEdge == edges'[Len(edges')]

\* v occurs in the edge e
OccursIn(v, e) == \E k \in DOMAIN e : e[k] = v

\* what a step of the run leaves of the vertices deactivated before it
C22Step ==
    EventApplied =>
        /\ \A v \in deactivated :
              /\ v \in deactivated'
              /\ get(fenwick', v) = 0
              /\ degree'[v + 1] = degree[v + 1]
              /\ Len(edges') > Len(edges) => ~OccursIn(v, NewEdge)
        /\ event' = "VertexDeactivation" =>
              Cardinality(deactivated') = Cardinality(deactivated) + 1

(* C22: deactivation is permanent: once a vertex v is deactivated in a run, *)
(* its index weight stays 0 for the rest of the run, v is never sampled     *)
(* into a later edge, never selected for deactivation again, and degree[v]  *)
(* keeps the value it had at the deactivation.                              *)

C22 ==
    /\ [](InRun => \A v \in deactivated :
                      v < Len(fenwick.items) /\ get(fenwick, v) = 0)
    /\ [][C22Step]_vars

\* an edge arrived after one of two vertices had been deactivated
C22Witness ==
    /\ pc = "run"
    /\ t = 3
    /\ event = "EdgeArrival"
    /\ vertices = 2
    /\ Cardinality(deactivated) = 1

\* what an arrival appends, and what any step leaves of the edges
C23Step ==
    EventApplied =>
        /\ SubSeq(edges', 1, Len(edges)) = edges
        /\ event' = "VertexDeactivation" => edges' = edges
        /\ event' \in {"VertexArrival", "EdgeArrival"} =>
              /\ Len(edges') = Len(edges) + 1
              /\ Len(NewEdge) = model.m
              /\ \A k \in DOMAIN NewEdge : NewEdge[k] < vertices'
        /\ event' = "VertexArrival" =>
              /\ NewEdge[model.m] = vertices
              /\ \A k \in 1..(model.m - 1) : NewEdge[k] \in ActiveVertices
              /\ degree'[vertices + 1] = 1
        /\ event' = "EdgeArrival" =>
              \A k \in DOMAIN NewEdge : NewEdge[k] \in ActiveVertices

(* C23: every edge appended after the initial one has size m and holds only *)
(* ids of existing vertices; the edge of a VertexArrival is m - 1 vertices  *)
(* active before the step followed by the new vertex, which occurs once in  *)
(* it and has degree 1 after the step; the edge of an EdgeArrival is m      *)
(* vertices active before the step; appended edges are never changed.       *)

C23 == [][C23Step]_vars

\* a vertex arrived with an edge of two vertices after a deactivation
C23Witness ==
    /\ pc = "run"
    /\ t = 3
    /\ event = "VertexArrival"
    /\ model.m = 2
    /\ Cardinality(deactivated) = 1
    /\ Len(edges[Len(edges)]) = 2


\* the thresholds of the events in the units of the draws
Threshold(x) == 2 * x

(* C24: the event of a step is given by the draw p as the half-open         *)
(* partition of [0, 1): VertexArrival exactly when p < pv, EdgeArrival      *)
(* exactly when pv <= p < pv + pe, VertexDeactivation exactly when          *)
(* p >= pv + pe; a draw equal to pv selects EdgeArrival, a draw equal to    *)
(* pv + pe selects VertexDeactivation.                                      *)

C24 ==
    InLoop => \A p \in PDraws :
        /\ IsVertexArrival(model, p) <=> p < Threshold(model.pv)
        /\ IsEdgeArrival(model, p) <=>
              (Threshold(model.pv) <= p /\ p < Threshold(model.pv + model.pe))
        /\ IsVertexDeactivation(model, p) <=> p >= Threshold(model.pv + model.pe)

\* the positions of the tree
Positions == 0..(Len(fenwick.items) - 1)

(* C25: for a tree of capacity n and every i < n: get(i) is sum(i, i + 1);  *)
(* after set(i, x), get(i) = x, the weight of every other position is       *)
(* unchanged and total has changed by x minus the old weight of i; a second *)
(* set(i, x) leaves the state of the first.                                 *)

C25 ==
    pc = "fenwick" =>
        \A i \in Positions :
            /\ get(fenwick, i) = sum(fenwick, i, i + 1)
            /\ get(fenwick, i) = plain[i + 1]
            /\ \A x \in Weights :
                  LET g == set(fenwick, i, x)
                  IN  /\ get(g, i) = x
                      /\ \A k \in Positions \ {i} : get(g, k) = get(fenwick, k)
                      /\ g.total = fenwick.total + x - get(fenwick, i)
                      /\ set(g, i, x) = g

\* set has just stored a weight in a tree that holds a 2 and a -1
C25Witness ==
    /\ pc = "fenwick"
    /\ event = "set"
    /\ \E i, k \in Positions : get(fenwick, i) = 2 /\ get(fenwick, k) = 0 - 1

\* the state of main that a call of Hypergraph::generate can change
MainState == <<pc, result, error, random, HypergraphVars>>

(* C26: every retry loop performs a bounded number of engine invocations    *)
(* and then terminates, whatever error the engine keeps returning.  A loop  *)
(* that terminates never repeats a call from the state it was already in:   *)
(* every call of the retry loop of main changes the state of main.          *)

C26 ==
    [][(pc = "main_result" /\ attempts' # attempts) => MainState' # MainState]_vars

=============================================================================
